---- MODULE Spec2Model ----
(***************************************************************************)
(* Staggered coupling control of the IFEM-OpenFrac fracture drivers.       *)
(*                                                                         *)
(*   SIMFractureQstatic  (src/SIMFractureQstatic.h)  successive iteration  *)
(*   SIMFractureMiehe    (src/SIMFractureQstatic.h)  fixed cycle count     *)
(*   SIMFracture         (src/SIMFractureDynamics.h) driver, stop          *)
(*                                                   criterion, adaptMesh  *)
(*                                                                         *)
(* S1 is the solid solver (Field A), S2 the phase-field solver (Field B).  *)
(* Their calls are external: each call that returns a status is modelled   *)
(* by its outcome, drawn nondeterministically, and is recorded in the      *)
(* call trace `calls` of the handler that made it.                         *)
(*                                                                         *)
(* Floating point quantities (residual norms, energies, tolerances,        *)
(* reaction forces, areas) are integers in a common unit; only their       *)
(* order and sums are used by the code modelled here.                      *)
(***************************************************************************)
EXTENDS Integers, Sequences, FiniteSets, TLC

\* ---------------------------------------------------------------- bounds
MaxTol   == 1   \* cycleTol ranges over -MaxTol..MaxTol
MaxCyc   == 2   \* maxCycle and numCycle range over -1..MaxCyc
MaxNorm  == 1   \* the residual norms: rNorm1 + rNorm2 <= MaxNorm
MaxE     == 1   \* the energy scalars: eNorm1 + eNorm2 <= MaxE
MaxStep  == 2   \* tp.step ranges over 1..MaxStep
MaxIter0 == 1   \* the caller's tp.iter at entry ranges over 0..MaxIter0
MaxRF    == 2   \* the reaction force vector has 0..MaxRF components
MaxF     == 1   \* each reaction force ranges over -MaxF..MaxF
MaxStop  == 2   \* stopVal ranges over 0..MaxStop
MaxRef   == 2   \* nrefinements ranges over 0..MaxRef
MaxInd   == 1   \* each refinement indicator ranges over 0..MaxInd
MaxG     == 1   \* the global norm gNorm ranges over 1..MaxG
MaxElems == 4   \* adaptMesh is followed on meshes of up to MaxElems elements
MaxMesh  == 7   \* and as long as the refined mesh has up to MaxMesh elements
MaxGen   == 2   \* solution contents are told apart by a tag in 1..MaxGen
MaxSel   == 3   \* the element selection is followed on 1..MaxSel elements
MaxArea  == 2   \* with areas 1 and 2 and a minimum area in 1..MaxArea
MaxInit  == 1   \* S2.getInitRefine() ranges over 0..MaxInit

\* ------------------------------------------------------- SIM::ConvStatus
\* Only the order is used: `<= SIM::DIVERGED` means failure or divergence,
\* `>= SIM::OK` means OK or CONVERGED.
FAILURE   == 0
DIVERGED  == 1
OK        == 2
CONVERGED == 3
ConvStatus == {FAILURE, DIVERGED, OK, CONVERGED}

VARIABLES
  tp,        \* the caller's TimeStep: [step, iter, first]
  calls,     \* subsystem calls made by the last handler, in order
  ret,       \* "none" until solveStep has returned, else "true" / "false"
  hasIC,     \* S2.hasIC("phasefield")
  crackP,    \* S1.haveCrackPressure()
  pc,        \* "idle" before solveStep, "cycle" inside
             \* SIMCoupledSI::solveStep, "done" after solveStep
  \* SIMFractureQstatic
  cycleTol, maxCycle, E0, Ep, Ec,
  firstS1,   \* the firstS1 argument: as the caller passes it while idle,
             \* as handed to SIMCoupledSI::solveStep afterwards
  cyc,       \* staggering cycles solved in the current step
  chk,       \* the last checkConvergence call: its inputs and its result
  \* SIMFractureMiehe
  numCycle,
  diag,      \* the norms and energy scalars of the final residual report
  \* SIMFracture: the stop criterion
  doStop, irfStop, stopVal,
  drv,       \* the last call of a SIMFracture method and what it returned
  obs,       \* the last saveStep ran at a step > 1 and saw
             \* |RF(irfStop)| < stopVal for a valid component irfStop
  \* SIMFracture: adaptivity
  patch,     \* what S1.getPatch(1) is: "ASMu2D", "other", or "nolr" in a
             \* build without HAS_LRSPLINE
  aMin,      \* the minimum element area
  mesh1, mesh2,      \* the element areas of the meshes of S1 and S2
  sol1, sol2, hist,  \* S1.getSolutions(), S2.getSolution(),
                     \* S2.getHistoryField()
  sols, hsol,        \* the internal buffer of saveState
  pick,      \* the arguments and locals of the element selection of
             \* adaptMesh (lines 192-222) when it is followed on its own
  ir         \* the arguments of initialRefine, the value of
             \* S2.getInitRefine() and what the calls of its loop returned

qsVars == <<cycleTol, maxCycle, E0, Ep, Ec, firstS1, cyc, chk>>
miVars == <<numCycle, diag>>
drVars == <<doStop, irfStop, stopVal, drv, obs>>
adVars == <<patch, aMin, mesh1, mesh2, sol1, sol2, hist, sols, hsol, pick>>

vars ==
  <<tp, calls, ret, hasIC, crackP, pc, qsVars, miVars, drVars, adVars, ir>>

\* The variables that are not members of SIMFractureQstatic, and those
\* that are not members of SIMFractureMiehe.
NotQs == <<miVars, drVars, adVars, ir>>
NotMi == <<qsVars, drVars, adVars, ir>>

\* ------------------------------------------------------------ call trace
\* One subsystem call: who, what, its tag argument (0 if none), the value
\* of the cycle counter of the TimeStep it was given, and whether it made
\* the handler return (ok = FALSE) or not.
Call(sub, op, tag, iter) ==
  [sub |-> sub, op |-> op, tag |-> tag, iter |-> iter, ok |-> TRUE]

\* A planned call; gate tells whether its outcome is tested by the caller.
Plan(sub, op, tag, iter, gate) ==
  [sub |-> sub, op |-> op, tag |-> tag, iter |-> iter, gate |-> gate]

Trace(plan, n) ==
  [i \in 1..n |-> Call(plan[i].sub, plan[i].op, plan[i].tag, plan[i].iter)]

\* The calls made of `plan` when the call at index f fails (f = 0: none
\* fails): every `if (!call) return ...` returns at once.
Executed(plan, f) ==
  IF f = 0 THEN Trace(plan, Len(plan))
  ELSE [Trace(plan, f) EXCEPT ![f].ok = FALSE]

\* The indices of the calls of `plan` whose failure is tested.
Gated(plan) == {i \in 1..Len(plan) : plan[i].gate}

\* ----------------------------------- SIMFractureQstatic::checkConvergence
Abs(x) == IF x < 0 THEN -x ELSE x

\* Lines 91-113: the residual evaluation of both fields.
ResidualCalls(iter) ==
  << Plan("S1", "setMode",        0, iter, FALSE),
     Plan("S1", "assembleSystem", 0, iter, TRUE),
     Plan("S1", "extractLoadVec", 0, iter, TRUE),
     Plan("S1", "extractScalar",  0, iter, FALSE),
     Plan("S2", "setMode",        0, iter, TRUE),
     Plan("S2", "assembleSystem", 0, iter, TRUE),
     Plan("S2", "extractLoadVec", 0, iter, TRUE),
     Plan("S2", "extractScalar",  0, iter, FALSE) >>

\* Broken comparisons: the test R <= |tol| for R < |tol|, and the
\* comparison without the "continue after maximum number of cycles" branch.
ConvDecision_Le(rConv, iter, tol, maxC) ==
  IF rConv <= Abs(tol) THEN CONVERGED
  ELSE IF iter < maxC THEN OK
  ELSE IF tol < 0 THEN CONVERGED
  ELSE DIVERGED

ConvDecision_NoAccept(rConv, iter, tol, maxC) ==
  IF rConv < Abs(tol) THEN CONVERGED
  ELSE IF iter < maxC THEN OK
  ELSE DIVERGED

\* Lines 130-139: the tolerance / cycle cap comparison.
ConvDecision(rConv, iter, tol, maxC) ==
  IF rConv < Abs(tol) THEN CONVERGED
  ELSE IF iter < maxC THEN OK
  ELSE IF tol < 0 THEN CONVERGED
  ELSE DIVERGED

\* Lines 120-127: the energy trace <<E0, Ep, Ec>> after a cycle.
EnergyUpdate(iter, eConv, e0, ep, ec) ==
  IF iter = 0 THEN <<eConv, ep, ec>>
  ELSE <<e0, IF iter > 1 THEN ec ELSE e0, eConv>>

\* The outcomes of the external calls of one check: the index of the
\* failing residual call (0: none) and, when none fails, the norms and
\* energy scalars extracted.
NullEnv == [fail |-> 0, r1 |-> 0, r2 |-> 0, e1 |-> 0, e2 |-> 0]

CheckEnvs ==
  {[NullEnv EXCEPT !.fail = f] : f \in Gated(ResidualCalls(0))}
  \cup {e \in [fail : {0}, r1 : 0..MaxNorm, r2 : 0..MaxNorm,
                e1 : 0..MaxE, e2 : 0..MaxE] :
          e.r1 + e.r2 <= MaxNorm /\ e.e1 + e.e2 <= MaxE}

\* Broken check: the result of S2.extractLoadVec (line 109) is not
\* tested.
checkConvergence_Untested(t, status1, status2, env) ==
  IF status1 = FAILURE \/ status2 = FAILURE THEN
    [status |-> FAILURE, calls |-> <<>>, E |-> <<E0, Ep, Ec>>,
     compared |-> FALSE]
  ELSE IF status1 = DIVERGED \/ status2 = DIVERGED THEN
    [status |-> DIVERGED, calls |-> <<>>, E |-> <<E0, Ep, Ec>>,
     compared |-> FALSE]
  ELSE IF env.fail # 0 /\ env.fail # 7 THEN
    [status |-> FAILURE, calls |-> Executed(ResidualCalls(t.iter), env.fail),
     E |-> <<E0, Ep, Ec>>, compared |-> FALSE]
  ELSE
    [status |-> ConvDecision(env.r1 + env.r2, t.iter, cycleTol, maxCycle),
     calls |-> Executed(ResidualCalls(t.iter), 0),
     E |-> EnergyUpdate(t.iter, env.e1 + env.e2, E0, Ep, Ec),
     compared |-> TRUE]

\* Broken check: after the first cycle the step is taken as converged
\* when the energy is the one of the cycle before.
checkConvergence_Energy(t, status1, status2, env) ==
  IF status1 = FAILURE \/ status2 = FAILURE THEN
    [status |-> FAILURE, calls |-> <<>>, E |-> <<E0, Ep, Ec>>,
     compared |-> FALSE]
  ELSE IF status1 = DIVERGED \/ status2 = DIVERGED THEN
    [status |-> DIVERGED, calls |-> <<>>, E |-> <<E0, Ep, Ec>>,
     compared |-> FALSE]
  ELSE IF env.fail # 0 THEN
    [status |-> FAILURE, calls |-> Executed(ResidualCalls(t.iter), env.fail),
     E |-> <<E0, Ep, Ec>>, compared |-> FALSE]
  ELSE
    [status |-> IF t.iter > 0 /\ env.e1 + env.e2 = Ec THEN CONVERGED
                ELSE ConvDecision(env.r1 + env.r2, t.iter, cycleTol,
                                  maxCycle),
     calls |-> Executed(ResidualCalls(t.iter), 0),
     E |-> EnergyUpdate(t.iter, env.e1 + env.e2, E0, Ep, Ec),
     compared |-> TRUE]

\* Lines 81-140.  The result: the status, the calls made, the energy trace
\* afterwards and whether line 130 was reached.
checkConvergence(t, status1, status2, env) ==
  IF status1 = FAILURE \/ status2 = FAILURE THEN
    [status |-> FAILURE, calls |-> <<>>, E |-> <<E0, Ep, Ec>>,
     compared |-> FALSE]
  ELSE IF status1 = DIVERGED \/ status2 = DIVERGED THEN
    [status |-> DIVERGED, calls |-> <<>>, E |-> <<E0, Ep, Ec>>,
     compared |-> FALSE]
  ELSE IF env.fail # 0 THEN
    [status |-> FAILURE, calls |-> Executed(ResidualCalls(t.iter), env.fail),
     E |-> <<E0, Ep, Ec>>, compared |-> FALSE]
  ELSE
    [status |-> ConvDecision(env.r1 + env.r2, t.iter, cycleTol, maxCycle),
     calls |-> Executed(ResidualCalls(t.iter), 0),
     E |-> EnergyUpdate(t.iter, env.e1 + env.e2, E0, Ep, Ec),
     compared |-> TRUE]

\* The environments a check with these incoming statuses can meet: the
\* residual calls are not made when a status is FAILURE or DIVERGED.
EnvsFor(status1, status2) ==
  IF status1 <= DIVERGED \/ status2 <= DIVERGED THEN {NullEnv} ELSE CheckEnvs

NoChk == [ran |-> FALSE, iter |-> 0, s1 |-> OK, s2 |-> OK, fail |-> 0,
          r1 |-> 0, r2 |-> 0, status |-> OK, compared |-> FALSE]

ChkOf(t, status1, status2, env, res) ==
  [ran |-> TRUE, iter |-> t.iter, s1 |-> status1, s2 |-> status2,
   fail |-> env.fail, r1 |-> env.r1, r2 |-> env.r2,
   status |-> res.status, compared |-> res.compared]

Bool(b) == IF b THEN "true" ELSE "false"

\* ------------------------------------------ SIMFractureQstatic::solveStep
\* Lines 57-68: step 1 with an initial phase field.  S1.solveStep is given
\* a copy myTp of tp, so whatever it does to the cycle counter stays in the
\* copy and tp is as it was; f is the index of the failing call (0: none).
BootstrapCalls(iter) ==
  << Plan("S2", "postSolve", 0, iter, TRUE),
     Plan("S1", "solveStep", 0, iter, TRUE) >>

\* Broken: S1.solveStep is given tp itself (as line 198 does).
QsAfterS1_NoCopy(t, t2) == t2

\* The TimeStep that line 64 hands to S1.solveStep, given the caller's tp
\* and the TimeStep t2 that S1.solveStep turns its argument into: S1 works
\* on the copy myTp, so the caller's tp is not touched.
QsAfterS1(t, t2) == t

\* Broken result: the bootstrap succeeds only if the check converged.
BootstrapResult_Converged(status) == status = CONVERGED

\* Line 67: the value returned for the status of the check.
BootstrapResult(status) == status >= OK

QsBootstrap(f, env, t2) ==
  LET res == checkConvergence(tp, OK, CONVERGED, env)
  IN IF f # 0
     THEN /\ calls' = Executed(BootstrapCalls(tp.iter), f)
          /\ ret' = "false"
          /\ chk' = NoChk
          /\ tp' = IF f = 2 THEN QsAfterS1(tp, t2) ELSE tp
          /\ UNCHANGED <<E0, Ep, Ec>>
     ELSE /\ calls' = Executed(BootstrapCalls(tp.iter), 0) \o res.calls
          /\ ret' = Bool(BootstrapResult(res.status))
          /\ chk' = ChkOf(tp, OK, CONVERGED, env, res)
          /\ tp' = QsAfterS1(tp, t2)
          /\ E0' = res.E[1] /\ Ep' = res.E[2] /\ Ec' = res.E[3]

\* Broken order: Field A is solved first iff it has no crack pressure.
QsOrder_CrackP(step, ic, fs) == ~crackP

\* Line 75 and the argument of line 77: the solve order handed on.
QsOrder(step, ic, fs) == IF step = 1 THEN fs ELSE ~ic

Qstatic_solveStep ==
  /\ pc = "idle"
  /\ IF tp.step = 1 /\ hasIC THEN
       \* lines 57-68
       /\ \E f \in 0..2, env \in CheckEnvs, it2 \in 0..MaxIter0 :
            /\ (f # 0 => env = NullEnv)
            /\ (f = 1 => it2 = 0)
            /\ QsBootstrap(f, env, [tp EXCEPT !.iter = it2])
       /\ pc' = "done"
       /\ UNCHANGED <<firstS1, cyc>>
     ELSE IF tp.step = 1 /\ crackP THEN
       \* lines 69-72, then line 77
       \E ok \in BOOLEAN :
         /\ calls' = Executed(<<Plan("S2", "solveStep", 0, tp.iter, TRUE)>>,
                              IF ok THEN 0 ELSE 1)
         /\ chk' = NoChk
         /\ cyc' = 0
         /\ UNCHANGED <<E0, Ep, Ec>>
         /\ IF ok
            THEN /\ pc' = "cycle"
                 /\ ret' = "none"
                 /\ firstS1' = QsOrder(tp.step, hasIC, firstS1)
                 /\ tp' = [tp EXCEPT !.iter = 0]
            ELSE /\ pc' = "done"
                 /\ ret' = "false"
                 /\ UNCHANGED <<tp, firstS1>>
     ELSE
       \* line 75 (step > 1), then line 77
       /\ calls' = <<>>
       /\ chk' = NoChk
       /\ cyc' = 0
       /\ pc' = "cycle"
       /\ ret' = "none"
       /\ firstS1' = QsOrder(tp.step, hasIC, firstS1)
       /\ tp' = [tp EXCEPT !.iter = 0]
       /\ UNCHANGED <<E0, Ep, Ec>>
  /\ UNCHANGED <<hasIC, crackP, cycleTol, maxCycle, NotQs>>

\* One pass of the cycle loop of SIMCoupledSI::solveStep, which line 77
\* enters with tp.iter = 0: both fields are solved in the order firstS1
\* asks for, then the convergence check is run at the cycle index tp.iter.
\* FAILURE and DIVERGED end the step as failed, CONVERGED ends it
\* successfully after postSolve of both fields, OK increments tp.iter and
\* goes on.
CycleSolves(fS1, iter) ==
  IF fS1 THEN << Call("S1", "solveIteration", 0, iter),
                 Call("S2", "solveIteration", 0, iter) >>
  ELSE << Call("S2", "solveIteration", 0, iter),
          Call("S1", "solveIteration", 0, iter) >>

SIMCoupledSI_cycle ==
  /\ pc = "cycle"
  /\ \E s1 \in ConvStatus, s2 \in ConvStatus :
       \E env \in EnvsFor(s1, s2) :
         LET res == checkConvergence(tp, s1, s2, env) IN
         /\ chk' = ChkOf(tp, s1, s2, env, res)
         /\ E0' = res.E[1] /\ Ep' = res.E[2] /\ Ec' = res.E[3]
         /\ cyc' = cyc + 1
         /\ IF res.status <= DIVERGED THEN
              /\ calls' = CycleSolves(firstS1, tp.iter) \o res.calls
              /\ ret' = "false"
              /\ pc' = "done"
              /\ tp' = tp
            ELSE IF res.status = CONVERGED THEN
              /\ calls' = CycleSolves(firstS1, tp.iter) \o res.calls \o
                            << Call("S1", "postSolve", 0, tp.iter),
                               Call("S2", "postSolve", 0, tp.iter) >>
              /\ ret' = "true"
              /\ pc' = "done"
              /\ tp' = [tp EXCEPT !.first = FALSE]
            ELSE
              /\ calls' = CycleSolves(firstS1, tp.iter) \o res.calls
              /\ ret' = "none"
              /\ pc' = "cycle"
              /\ tp' = [tp EXCEPT !.iter = tp.iter + 1]
  /\ UNCHANGED <<hasIC, crackP, cycleTol, maxCycle, firstS1, NotQs>>

\* -------------------------------------------- SIMFractureMiehe::solveStep
NullDiag == [r1 |-> 0, r2 |-> 0, e1 |-> 0, e2 |-> 0]

DiagEnvs ==
  {d \in [r1 : 0..MaxNorm, r2 : 0..MaxNorm, e1 : 0..MaxE, e2 : 0..MaxE] :
     d.r1 + d.r2 <= MaxNorm /\ d.e1 + d.e2 <= MaxE}

\* Broken first calls: the bootstrap solves Field A without the postSolve
\* of Field B.
MieheFirst_NoPost(step, ic, cp, iter) ==
  IF step = 1 /\ ic THEN
    << Plan("S1", "solveStep", 0, iter, TRUE) >>
  ELSE IF step = 1 /\ cp THEN
    << Plan("S2", "solveStep", 0, iter, TRUE) >>
  ELSE <<>>

\* Lines 189-209: the calls that step 1 makes first.  S1.solveStep is given
\* tp itself here.
MieheFirst(step, ic, cp, iter) ==
  IF step = 1 /\ ic THEN
    << Plan("S2", "postSolve", 0, iter, TRUE),
       Plan("S1", "solveStep", 0, iter, TRUE) >>
  ELSE IF step = 1 /\ cp THEN
    << Plan("S2", "solveStep", 0, iter, TRUE) >>
  ELSE <<>>

\* Broken corrector loop: `tp.iter <= numCycle`.
RECURSIVE CorrectorLoop_Le(_, _)
CorrectorLoop_Le(i, n) ==
  IF i <= n
  THEN << Plan("S2", "solveStep", 0, i, TRUE),
          Plan("S1", "solveIteration", 3, i, TRUE) >>
       \o CorrectorLoop_Le(i + 1, n)
  ELSE <<>>

\* Lines 229-238: for (tp.iter = i; tp.iter < numCycle; tp.iter++).
RECURSIVE CorrectorLoop(_, _)
CorrectorLoop(i, n) ==
  IF i < n
  THEN << Plan("S2", "solveStep", 0, i, TRUE),
          Plan("S1", "solveIteration", 3, i, TRUE) >>
       \o CorrectorLoop(i + 1, n)
  ELSE <<>>

\* The value of tp.iter when the loop of line 229 is left.
LoopExit(n) == IF n > 1 THEN n ELSE 1

\* Broken staggering sequence: the strain energy density is updated
\* after the phase-field solve.
MieheStagger_SedLate(n) ==
  << Plan("S1", "solveIteration", 1, 0, TRUE),
     Plan("S2", "solveStep", 0, 0, TRUE),
     Plan("S1", "updateStrainEnergyDensity", 0, 0, TRUE),
     Plan("S1", "solveIteration", 2, 1, TRUE) >>
  \o CorrectorLoop(1, n)
  \o << Plan("S1", "postSolve", 0, LoopExit(n), FALSE),
        Plan("S2", "postSolve", 0, LoopExit(n), FALSE) >>

\* Lines 213-242: predictor, strain energy density, phase field, first
\* corrector, the remaining cycles, postSolve of both fields (whose
\* results are not tested).
MieheStagger(n) ==
  << Plan("S1", "solveIteration", 1, 0, TRUE),
     Plan("S1", "updateStrainEnergyDensity", 0, 0, TRUE),
     Plan("S2", "solveStep", 0, 0, TRUE),
     Plan("S1", "solveIteration", 2, 1, TRUE) >>
  \o CorrectorLoop(1, n)
  \o << Plan("S1", "postSolve", 0, LoopExit(n), FALSE),
        Plan("S2", "postSolve", 0, LoopExit(n), FALSE) >>

\* Lines 245-268: the residual evaluation of both fields.
MieheResidualCalls(iter) ==
  << Plan("S1", "setMode",        0, iter, FALSE),
     Plan("S1", "assembleSystem", 0, iter, TRUE),
     Plan("S1", "extractLoadVec", 0, iter, TRUE),
     Plan("S1", "extractScalar",  0, iter, FALSE),
     Plan("S2", "setMode",        0, iter, TRUE),
     Plan("S2", "assembleSystem", 0, iter, TRUE),
     Plan("S2", "extractLoadVec", 0, iter, TRUE),
     Plan("S2", "extractScalar",  0, iter, FALSE) >>

\* Broken result: the step is reported failed unless the combined
\* residual is below a tolerance.
MieheResult_Tol(f, d) == Bool(f = 0 /\ d.r1 + d.r2 < 1)

\* The value returned: false at the first failing call (f), true at line
\* 273 whatever norms and energies d were printed.
MieheResult(f, d) == Bool(f = 0)

\* Lines 187-274.  it2 is the cycle counter S1.solveStep leaves in the
\* TimeStep it is given (line 198), f the index of the failing call (0:
\* none) and d the norms and scalars of lines 253-268.
Miehe_solveStep ==
  /\ pc = "idle"
  /\ \E it2 \in 0..MaxIter0, d \in DiagEnvs :
       LET boot == tp.step = 1 /\ hasIC
           A    == MieheFirst(tp.step, hasIC, crackP, tp.iter)
           B    == IF tp.step > 1 \/ ~hasIC
                   THEN MieheStagger(numCycle) ELSE <<>>
           itR  == IF boot THEN it2 ELSE LoopExit(numCycle)
           plan == A \o B \o MieheResidualCalls(itR)
       IN \E f \in {0} \cup Gated(plan) :
            /\ (~boot \/ f = 1) => it2 = 0
            /\ f # 0 => d = NullDiag
            /\ calls' = Executed(plan, f)
            /\ ret' = MieheResult(f, d)
            /\ diag' = d
            /\ tp' = [step  |-> tp.step,
                      iter  |-> IF f = 0 THEN itR
                                ELSE IF boot /\ f = 2 THEN it2
                                ELSE plan[f].iter,
                      first |-> IF f = 0 \/ f > Len(A) + Len(B)
                                THEN FALSE ELSE tp.first]
            /\ pc' = "done"
  /\ UNCHANGED <<hasIC, crackP, numCycle, NotMi>>

\* After construction (line 174) and parsing of the staggering parameters
\* (line 183): max is whatever the input file gives.
MiInit ==
  /\ numCycle \in (0 - 1)..MaxCyc
  /\ diag = NullDiag

\* A SIMFractureMiehe object whose members are not used.
MiParked ==
  /\ numCycle = 2
  /\ diag = NullDiag

\* ------------------------------------------- SIMFracture: stop criterion
\* Lines 119-120: doStop after saveStep; RF(i) is the i-th component,
\* counted from 1.
\* Broken criterion: the flag stays set once it is set.
StopCriterion_Latched(step, irf, RF, sv, stop) ==
  IF step > 1 /\ irf > 0 /\ irf <= Len(RF) THEN stop \/ Abs(RF[irf]) < sv
  ELSE stop

StopCriterion(step, irf, RF, sv, stop) ==
  IF step > 1 /\ irf > 0 /\ irf <= Len(RF) THEN Abs(RF[irf]) < sv ELSE stop

\* Broken advanceStep: the stop flag is not looked at.
AdvanceResult_NoStop(base, stop) == base

\* Line 65: base is the value of CoupledSIM::advanceStep(tp).
AdvanceResult(base, stop) == base /\ ~stop

\* The reaction force vectors S1.getBoundaryReactions can give.
RFs == UNION {[1..n -> (0 - MaxF)..MaxF] : n \in 0..MaxRF}

NoDrv == [op |-> "none", step |-> 0, base |-> TRUE, ret |-> TRUE,
          code |-> 0, empty |-> FALSE, nsel |-> 0, walk |-> "na",
          nref |-> 0 - 1, eval |-> FALSE, was |-> FALSE]

\* A solution vector: the number n of elements of the mesh it is laid out
\* on (0: the vector is empty) and a tag v for its content (0: the zero
\* vector of a fresh initialisation).
Vec(n, v) == [n |-> n, v |-> v]

\* The vector a successful solve leaves in place of s.
Solved(s) == IF s.n = 0 THEN s ELSE Vec(s.n, (s.v % MaxGen) + 1)

\* Lines 130-138: rcomp and force of the <stop> element.
SIMFracture_parseStaggering ==
  /\ pc = "idle"
  /\ irfStop' \in 0..(MaxRF + 1)
  /\ stopVal' \in 0..MaxStop
  /\ drv' = [NoDrv EXCEPT !.op = "parse"]
  /\ calls' = <<>>
  /\ UNCHANGED <<tp, ret, hasIC, crackP, pc, doStop, obs,
                 qsVars, miVars, adVars, ir>>

\* Lines 63-66, for a TimeStep at step s.
SIMFracture_advanceStep ==
  /\ pc = "idle"
  /\ \E s \in 0..MaxStep, base \in BOOLEAN :
       drv' = [NoDrv EXCEPT !.op = "advance", !.step = s, !.base = base,
                            !.ret = AdvanceResult(base, doStop)]
  /\ calls' = << Call("Coupled", "advanceStep", 0, 0) >>
  /\ UNCHANGED <<tp, ret, hasIC, crackP, pc, doStop, irfStop,
                 stopVal, obs, qsVars, miVars, adVars, ir>>

\* Lines 69-77, for a TimeStep at step s: the phase field is solved first
\* at step 1 with crack pressure, then the coupled solve is run; ok2 and
\* ok are the values of S2.solveStep and CoupledSIM::solveStep.  A solve
\* that succeeds leaves new solutions, one that fails leaves them alone.
SIMFracture_solveStep ==
  /\ pc = "idle"
  /\ \E s \in 1..MaxStep, ok2 \in BOOLEAN, ok \in BOOLEAN :
       LET pre  == s = 1 /\ crackP
           s2   == IF pre /\ ok2 THEN Solved(sol2) ELSE sol2
           h2   == IF pre /\ ok2 THEN Solved(hist) ELSE hist
           both == ok2 /\ ok
       IN /\ (~pre => ok2)
          /\ (~ok2 => ok)
          /\ drv' = [NoDrv EXCEPT !.op = "solve", !.step = s, !.ret = both]
          /\ calls' =
               IF pre
               THEN Executed(<< Plan("S2", "solveStep", 0, 0, TRUE),
                                Plan("Coupled", "solveStep", 0, 0, TRUE) >>,
                             IF ~ok2 THEN 1 ELSE IF ~ok THEN 2 ELSE 0)
               ELSE Executed(<< Plan("Coupled", "solveStep", 0, 0, TRUE) >>,
                             IF ~ok THEN 1 ELSE 0)
          /\ sol1' = IF both THEN Solved(sol1) ELSE sol1
          /\ sol2' = IF both THEN Solved(s2) ELSE s2
          /\ hist' = IF both THEN Solved(h2) ELSE h2
  /\ UNCHANGED <<tp, ret, hasIC, crackP, pc, doStop, irfStop, stopVal, obs,
                 qsVars, miVars, ir, patch, aMin, mesh1, mesh2, sols, hsol,
                 pick>>

\* What a saveStep at step s sees of the criterion: the step is after
\* step 1, irf names a component of RF and that component is, in absolute
\* value, below sv.
Observed(s, irf, RF, sv) ==
  /\ s > 1 /\ irf >= 1
  /\ \E k \in 1..Len(RF) : k = irf /\ RF[k] < sv /\ 0 - RF[k] < sv

\* Line 119: whether a saveStep at step s gets to compare RF(irf).
Evaluated(s, irf, RF) == s > 1 /\ irf > 0 /\ irf <= Len(RF)

\* Lines 81-127, for a TimeStep at step s: RF is what
\* S1.getBoundaryReactions gives and saved the value of line 125.  The
\* energy file written by lines 86-116 is not part of the state.
SIMFracture_saveStep ==
  /\ pc = "idle"
  /\ \E s \in 0..MaxStep, saved \in BOOLEAN :
       \E o \in {<< StopCriterion(s, irfStop, RF, stopVal, doStop),
                     Observed(s, irfStop, RF, stopVal),
                     Evaluated(s, irfStop, RF) >> : RF \in RFs} :
         /\ doStop' = o[1]
         /\ obs' = o[2]
         /\ drv' = [NoDrv EXCEPT !.op = "save", !.step = s, !.ret = saved,
                                 !.eval = o[3], !.was = doStop]
  /\ calls' = << Call("S1", "getBoundaryReactions", 0, 0) >>
  /\ UNCHANGED <<tp, ret, hasIC, crackP, pc, irfStop, stopVal,
                 qsVars, miVars, adVars, ir>>

\* ---------------------------------------------- SIMFracture: adaptivity
\* Lines 151-156.
SIMFracture_saveState ==
  /\ pc = "idle"
  /\ sols' = <<sol1, sol2>>
  /\ hsol' = hist
  /\ drv' = [NoDrv EXCEPT !.op = "saveState"]
  /\ calls' = << Call("S1", "getSolutions", 0, 0),
                 Call("S2", "getSolution", 0, 0),
                 Call("S2", "getHistoryField", 0, 0) >>
  /\ UNCHANGED <<tp, ret, hasIC, crackP, pc, doStop, irfStop, stopVal, obs,
                 qsVars, miVars, ir, patch, aMin, mesh1, mesh2, sol1, sol2,
                 hist, pick>>

\* Line 187.
RedMax(nref) == 2 ^ nref

\* Broken floor: computed from the smallest element of the mesh.
NewAMin_Finest(a, mesh, nref) ==
  IF a <= 0
  THEN (CHOOSE m \in {mesh[i] : i \in 1..Len(mesh)} :
          \A i \in 1..Len(mesh) : m <= mesh[i]) \div (RedMax(nref) * RedMax(nref))
  ELSE a

\* Lines 185-189: the minimum element area is set from the first element
\* of the mesh of S1 unless it is set already.
NewAMin(a, mesh, nref) ==
  IF a <= 0 THEN mesh[1] \div (RedMax(nref) * RedMax(nref)) ELSE a

\* Lines 185-189: the minimum element area adaptMesh goes on with, and the
\* nrefinements it was computed from (-1: line 185 found it set, and
\* nrefinements is not looked at).
FloorOf(a, mesh, nref) ==
  [a |-> NewAMin(a, mesh, nref), nref |-> IF a <= 0 THEN nref ELSE 0 - 1]

\* What S2.getNorm(eNorm,3) can leave in eNorm for a mesh of n elements:
\* nothing, or one indicator per element.
ENorms(n) == {<<>>} \cup [1..n -> 0..MaxInd]

\* Lines 207 and 219: eNorm[eid] > eMin, for eMin = min_frac when that is
\* not negative and -min_frac*gNorm/sqrt(n) when it is; none of e, gNorm
\* and -min_frac is negative then, so the squares compare as the values.
AboveEMin(e, min_frac, gNorm, n) ==
  IF min_frac < 0 THEN e * e * n > (min_frac * gNorm) * (min_frac * gNorm)
  ELSE e > min_frac

\* Broken budget: the product is rounded up.
EMax_Ceil(beta, n) == IF beta < 0 THEN n ELSE (n * beta + 99) \div 100

\* Line 208: the conversion to size_t truncates.
EMax(beta, n) == IF beta < 0 THEN n ELSE (n * beta) \div 100

\* The orders the indices of S can be put in.
RECURSIVE TieOrders(_)
TieOrders(S) ==
  IF S = {} THEN {<<>>}
  ELSE UNION {{<<i>> \o o : o \in TieOrders(S \ {i})} : i \in S}

\* Lines 202-205: the orders std::sort can leave the indices of `rest`
\* in; it is free to put equal indicators in any order.  The indices are
\* split around a median indicator: those below it, in sorted order, then
\* those equal to it, in any order, then those above it, in sorted order.
RECURSIVE SortedIdx(_, _)
SortedIdx(eNorm, rest) ==
  IF rest = {} THEN {<<>>}
  ELSE LET below(i) == {j \in rest : eNorm[j] < eNorm[i]}
           above(i) == {j \in rest : eNorm[j] > eNorm[i]}
           p  == CHOOSE i \in rest :
                   /\ 2 * Cardinality(below(i)) <= Cardinality(rest)
                   /\ 2 * Cardinality(above(i)) <= Cardinality(rest)
           eq == {j \in rest : eNorm[j] = eNorm[p]}
       IN {l \o m \o r : l \in SortedIdx(eNorm, below(p)),
                          m \in TieOrders(eq),
                          r \in SortedIdx(eNorm, above(p))}

\* Broken area test: an element whose area is the minimum area is
\* refined too.
AboveAMin_Ge(area, a) == area >= a

\* Line 221: areas are whole numbers, so area > aMin+1.0e-12 is
\* area > aMin.
AboveAMin(area, a) == area > a

\* Broken loop: the number of elements selected is not held against
\* eMax.
RECURSIVE FindElements_NoBudget(_, _, _, _, _, _, _, _, _)
FindElements_NoBudget(idx, k, elements, eNorm, min_frac, gNorm, eMax, mesh, a) ==
  IF k > Len(idx) THEN elements
  ELSE IF AboveEMin(eNorm[idx[k]], min_frac, gNorm, Len(idx))
  THEN elements
  ELSE FindElements_NoBudget(idx, k + 1,
                             IF AboveAMin(mesh[idx[k]], a)
                             THEN Append(elements, idx[k]) ELSE elements,
                             eNorm, min_frac, gNorm, eMax, mesh, a)

\* Lines 216-222: the loop over idx from its k-th index on.
RECURSIVE FindElements(_, _, _, _, _, _, _, _, _)
FindElements(idx, k, elements, eNorm, min_frac, gNorm, eMax, mesh, a) ==
  IF k > Len(idx) THEN elements
  ELSE IF \/ AboveEMin(eNorm[idx[k]], min_frac, gNorm, Len(idx))
          \/ Len(elements) >= eMax
  THEN elements
  ELSE FindElements(idx, k + 1,
                    IF AboveAMin(mesh[idx[k]], a)
                    THEN Append(elements, idx[k]) ELSE elements,
                    eNorm, min_frac, gNorm, eMax, mesh, a)

\* Lines 207-222: the vectors `elements` the loop can give, idxs being
\* the orders the sort can leave.
Elements(idxs, eNorm, min_frac, gNorm, beta, mesh, a) ==
  {FindElements(idx, 1, <<>>, eNorm, min_frac, gNorm,
                EMax(beta, Len(eNorm)), mesh, a) : idx \in idxs}

\* Lines 218-220: the elements the loop passes before it breaks, from
\* the k-th index of idx on, n of them having been put into `elements`.
RECURSIVE Walked(_, _, _, _, _, _, _, _, _)
Walked(idx, k, n, eNorm, min_frac, gNorm, eMax, mesh, a) ==
  IF k > Len(idx) THEN <<>>
  ELSE IF \/ AboveEMin(eNorm[idx[k]], min_frac, gNorm, Len(idx))
          \/ n >= eMax
  THEN <<>>
  ELSE <<idx[k]>> \o Walked(idx, k + 1,
                            IF AboveAMin(mesh[idx[k]], a) THEN n + 1 ELSE n,
                            eNorm, min_frac, gNorm, eMax, mesh, a)

\* What the loop met: no element ("none"), elements that all have an area
\* of at most the minimum area ("floor"), or some larger one ("some").
WalkKind(w, mesh, a) ==
  IF w = <<>> THEN "none"
  ELSE IF \A i \in 1..Len(w) : mesh[w[i]] <= a THEN "floor"
  ELSE "some"

\* Lines 207-222: what the loop can select and what it met on the way.
Walks(idxs, eNorm, min_frac, gNorm, beta, mesh, a) ==
  {[sel  |-> FindElements(idx, 1, <<>>, eNorm, min_frac, gNorm,
                          EMax(beta, Len(eNorm)), mesh, a),
    walk |-> WalkKind(Walked(idx, 1, 0, eNorm, min_frac, gNorm,
                             EMax(beta, Len(eNorm)), mesh, a), mesh, a)] :
     idx \in idxs}

\* Broken early returns: line 194 does not test eNorm.
AdaptExit_NoTest(eNorm, elements) == IF elements = <<>> THEN 0 ELSE 1

\* Lines 194-199 and 224-225: the value returned before any refinement,
\* 1 if adaptMesh goes on to refine.
AdaptExit(eNorm, elements) ==
  IF eNorm = <<>> THEN 0 - 1
  ELSE IF elements = <<>> THEN 0
  ELSE 1

\* The mesh after refinement of the elements in sel, from element i on:
\* each refined element gives way to four of a quarter of its area.
RECURSIVE Refined(_, _, _)
Refined(mesh, sel, i) ==
  IF i > Len(mesh) THEN <<>>
  ELSE (IF i \in sel
        THEN LET q == mesh[i] \div 4 IN <<q, q, q, q>>
        ELSE <<mesh[i]>>) \o Refined(mesh, sel, i + 1)

\* Lines 182 and 193: the calls before the refinement.
AdaptFetch ==
  << Call("S1", "getPatch", 0, 0), Call("S2", "getNorm", 3, 0) >>

\* Lines 238-272: the calls from the refinement on; snap and hs tell
\* whether sols and hsol hold something.
AdaptCalls(snap, hs) ==
  << Plan("S1",   "refine",          0, 0, TRUE),
     Plan("S2",   "refine",          0, 0, TRUE),
     Plan("S1",   "clearProperties", 0, 0, FALSE),
     Plan("S2",   "clearProperties", 0, 0, FALSE),
     Plan("S1",   "read",            0, 0, TRUE),
     Plan("S2",   "read",            0, 0, TRUE),
     Plan("this", "preprocess",      0, 0, TRUE),
     Plan("this", "init",            0, 0, TRUE),
     Plan("S1",   "initSystem",      0, 0, TRUE),
     Plan("S2",   "initSystem",      0, 0, TRUE) >>
  \o (IF snap THEN << Plan("S1", "setSolutions", 0, 0, FALSE),
                      Plan("S2", "setSolution",  0, 0, FALSE) >>
       ELSE <<>>)
  \o (IF hs THEN << Plan("S2", "transferHistory2D", 0, 0, FALSE) >>
       ELSE <<>>)

\* Broken return codes: a failing preprocess is reported as a failing
\* read.
AdaptCode_Shared(f, n) ==
  IF f = 0 THEN n
  ELSE IF f <= 2 THEN 0 - 2
  ELSE IF f <= 7 THEN 0 - 3
  ELSE IF f = 8 THEN 0 - 5
  ELSE 0 - 6

\* Lines 239-276: the value returned when call f of AdaptCalls fails
\* (0: none fails) with n elements selected.
AdaptCode(f, n) ==
  IF f = 0 THEN n
  ELSE IF f <= 2 THEN 0 - 2
  ELSE IF f <= 6 THEN 0 - 3
  ELSE IF f = 7 THEN 0 - 4
  ELSE IF f = 8 THEN 0 - 5
  ELSE 0 - 6

\* adaptMesh returns code c after the calls cs; inside initialRefine
\* these come after the calls initialRefine has made so far.
AdaptReturn(c, cs, empty, n, walk, nref) ==
  /\ drv' = [NoDrv EXCEPT !.op = "adaptMesh", !.code = c, !.empty = empty,
                          !.nref = nref,
                          !.nsel = n, !.walk = walk]
  /\ calls' = (IF pc = "irAdapt" THEN calls ELSE <<>>) \o cs

\* Lines 238-276, when call f of AdaptCalls fails (0: none fails); walk is
\* what the selection loop met.
\* S1.refine refines the mesh of S1 and moves the vectors of sols onto it,
\* S2.refine refines the mesh of S2, init leaves zero solutions on the
\* new meshes, and lines 258-274 put the buffer in their place.
AdaptRefine(elements, f, walk, nref) ==
  LET sel     == {elements[i] : i \in 1..Len(elements)}
      went(k) == f = 0 \/ f > k
      m1      == IF went(1) THEN Refined(mesh1, sel, 1) ELSE mesh1
      m2      == IF went(2) THEN Refined(mesh2, sel, 1) ELSE mesh2
      moved   == IF went(1) /\ sols # <<>>
                 THEN << Vec(Len(m1), sols[1].v), Vec(Len(m1), sols[2].v) >>
                 ELSE sols
  IN /\ mesh1' = m1
     /\ mesh2' = m2
     /\ sols' = moved
     /\ sol1' = IF f = 0 /\ moved # <<>> THEN moved[1]
                ELSE IF went(8) THEN Vec(Len(m1), 0)
                ELSE sol1
     /\ sol2' = IF f = 0 /\ moved # <<>> THEN moved[Len(moved)]
                ELSE IF went(8) THEN Vec(Len(m2), 0)
                ELSE sol2
     /\ hist' = IF f = 0 /\ hsol.n # 0 THEN Vec(Len(m2), hsol.v)
                ELSE IF went(8) /\ hist.n # 0 THEN Vec(Len(m2), 0)
                ELSE hist
     /\ AdaptReturn(AdaptCode(f, Len(elements)),
                    AdaptFetch
                      \o Executed(AdaptCalls(sols # <<>>, hsol.n # 0), f),
                    FALSE, Len(elements), walk, nref)
     /\ UNCHANGED hsol

\* Lines 178-281, for beta, min_frac and nrefinements of the sets given,
\* every eNorm and gNorm S2.getNorm can give and every outcome of the
\* calls made.
adaptMesh(betas, min_fracs, nrefs) ==
  /\ Len(mesh2) <= MaxElems
  /\ IF patch = "nolr"
     THEN /\ AdaptReturn(0 - 1, <<>>, FALSE, 0, "na", 0 - 1)
          /\ UNCHANGED adVars
     ELSE IF patch # "ASMu2D"
     THEN /\ AdaptReturn(0 - 999, << Call("S1", "getPatch", 0, 0) >>,
                         FALSE, 0, "na", 0 - 1)
          /\ UNCHANGED adVars
     ELSE
       \E fl \in {FloorOf(aMin, mesh1, nref) : nref \in nrefs} :
       \E eNorm \in ENorms(Len(mesh2)) :
       \E w \in
            LET idxs == SortedIdx(eNorm, 1..Len(eNorm)) IN
            UNION {Walks(idxs, eNorm, min_frac, gNorm, beta, mesh1, fl.a) :
                     beta \in betas, min_frac \in min_fracs,
                     gNorm \in 1..MaxG} :
         LET elements == w.sel
             a        == fl.a
         IN
         /\ aMin' = a
         /\ IF AdaptExit(eNorm, elements) <= 0
            THEN /\ AdaptReturn(AdaptExit(eNorm, elements), AdaptFetch,
                                eNorm = <<>>, Len(elements),
                                IF eNorm = <<>> THEN "na" ELSE w.walk,
                                fl.nref)
                 /\ UNCHANGED <<mesh1, mesh2, sol1, sol2, hist, sols, hsol>>
            ELSE /\ Len(mesh1) + 3 * Len(elements) <= MaxMesh
                 /\ \E f \in {0} \cup
                              Gated(AdaptCalls(sols # <<>>, hsol.n # 0)) :
                      AdaptRefine(elements, f, w.walk, fl.nref)
         /\ UNCHANGED <<patch, pick>>

\* The values of beta and min_frac adaptMesh is followed for.
Betas == {0 - 1, 50}
MinFracs == {0 - 1, 0}

SIMFracture_adaptMesh ==
  /\ pc = "idle"
  /\ adaptMesh(Betas, MinFracs, 0..MaxRef)
  /\ UNCHANGED <<tp, ret, hasIC, crackP, pc, doStop, irfStop, stopVal, obs,
                 qsVars, miVars, ir>>

\* ------------------------------------------- SIMFracture::initialRefine
NoIr == [beta |-> 0, min_frac |-> 0, nref |-> 0, initRef |-> 0,
         solves |-> <<>>, codes |-> <<>>]

\* Lines 161-164: no refinement if the grid was refined enough while the
\* input was parsed, or if an initial phase field is given.
SkipRefine(initRef, nrefinements, ic) == initRef >= nrefinements \/ ic

\* Broken return: success whatever the last adaptMesh returned.
RefineResult_Any(newElements) == TRUE

\* Line 174.
RefineResult(newElements) == newElements = 0

\* Lines 159-167: the tests before the loop; S2.hasIC is asked only if
\* the first test fails.
SIMFracture_initialRefine ==
  /\ pc = "idle"
  /\ \E beta \in Betas, min_frac \in MinFracs, nref \in 0..MaxRef,
        initRef \in 0..MaxInit :
       /\ ir' = [NoIr EXCEPT !.beta = beta, !.min_frac = min_frac,
                             !.nref = nref, !.initRef = initRef]
       /\ calls' = << Call("S2", "getInitRefine", 0, 0) >> \o
                   (IF initRef >= nref THEN <<>>
                    ELSE << Call("S2", "hasIC", 0, 0) >>)
       /\ IF SkipRefine(initRef, nref, hasIC)
          THEN pc' = "done" /\ ret' = "true"
          ELSE pc' = "irSolve" /\ ret' = "none"
  /\ drv' = [NoDrv EXCEPT !.op = "initialRefine"]
  /\ UNCHANGED <<tp, hasIC, crackP, doStop, irfStop, stopVal, obs,
                 qsVars, miVars, adVars>>

\* Lines 168-170: the loop test has passed and S2.solveStep(step0) is
\* called, step0.iter being the number of adaptMesh calls so far.
initialRefine_solve ==
  /\ pc = "irSolve"
  /\ \E ok \in BOOLEAN :
       /\ calls' = calls \o
                     Executed(<< Plan("S2", "solveStep", 0,
                                      Len(ir.codes), TRUE) >>,
                              IF ok THEN 0 ELSE 1)
       /\ ir' = [ir EXCEPT !.solves = Append(ir.solves, ok)]
       /\ sol2' = IF ok THEN Solved(sol2) ELSE sol2
       /\ hist' = IF ok THEN Solved(hist) ELSE hist
       /\ IF ok THEN pc' = "irAdapt" /\ ret' = "none"
                ELSE pc' = "done" /\ ret' = "false"
  /\ UNCHANGED <<tp, hasIC, crackP, drVars, qsVars, miVars, patch, aMin,
                 mesh1, mesh2, sol1, sols, hsol, pick>>

\* Lines 172-174: adaptMesh is called with the arguments of
\* initialRefine; a positive value goes round the loop again, any other
\* ends it.
initialRefine_adapt ==
  /\ pc = "irAdapt"
  /\ adaptMesh({ir.beta}, {ir.min_frac}, {ir.nref})
  /\ ir' = [ir EXCEPT !.codes = Append(ir.codes, drv'.code)]
  /\ IF drv'.code > 0
     THEN pc' = "irSolve" /\ ret' = "none"
     ELSE pc' = "done" /\ ret' = Bool(RefineResult(drv'.code))
  /\ UNCHANGED <<tp, hasIC, crackP, doStop, irfStop, stopVal, obs,
                 qsVars, miVars>>

\* Lines 192-222 on their own: the indicators eNorm and the global norm
\* gNorm that S2.getNorm gave, the element areas, the minimum area and the
\* arguments beta and min_frac; then the sort, eMax, the elements whose
\* indicator is above eMin (line 219) and the loop.
NoPick ==
  [eNorm |-> <<>>, area |-> <<>>, aMin |-> 0, min_frac |-> 0, gNorm |-> 1,
   beta |-> 0, idx |-> <<>>, eMax |-> 0, above |-> {}, elements |-> <<>>,
   done |-> FALSE]

PickOf(eNorm, area, a, min_frac, gNorm, beta) ==
  [NoPick EXCEPT !.eNorm = eNorm, !.area = area, !.aMin = a,
                 !.min_frac = min_frac, !.gNorm = gNorm, !.beta = beta]

\* The inputs the selection is followed on: every small one on n
\* elements, and meshes of n = 100 elements with indicators 0..99 (in
\* thousandths), no two alike, for min_frac = 0.05 and -0.05 (50 and -50
\* thousandths) and gNorm = 10.
SmallPicks(n) ==
  \E eNorm \in [1..n -> 0..MaxInd], area \in [1..n -> 1..2],
     a \in 1..MaxArea, min_frac \in {0 - 1, 0, 1},
     gNorm \in 1..MaxG, beta \in {0 - 1, 0, 50, 100} :
    pick = PickOf(eNorm, area, a, min_frac, gNorm, beta)

LargePicks(n) ==
  \E s \in 0..1, min_frac \in {0 - 50, 50}, beta \in {0 - 1, 50} :
    pick = PickOf([i \in 1..n |-> (37 * i + s) % n],
                  [i \in 1..n |-> IF i % 3 = 0 THEN 1 ELSE 2],
                  1, min_frac, 10, beta)

adaptMesh_select ==
  /\ pc = "idle"
  /\ ~pick.done
  /\ \E idx \in SortedIdx(pick.eNorm, 1..Len(pick.eNorm)) :
       \E elements \in Elements({idx}, pick.eNorm, pick.min_frac,
                                 pick.gNorm, pick.beta, pick.area,
                                 pick.aMin) :
         pick' = [pick EXCEPT
                    !.idx = idx,
                    !.eMax = EMax(pick.beta, Len(pick.eNorm)),
                    !.above = {i \in 1..Len(pick.eNorm) :
                                 AboveEMin(pick.eNorm[i], pick.min_frac,
                                           pick.gNorm, Len(pick.eNorm))},
                    !.elements = elements,
                    !.done = TRUE]
  /\ UNCHANGED <<tp, calls, ret, hasIC, crackP, pc, qsVars, miVars, drVars, ir,
                 patch, aMin, mesh1, mesh2, sol1, sol2, hist, sols, hsol>>

\* The patches the subsystems start with, as the areas of their elements:
\* one element, or two that differ in area (a graded mesh).
InitMeshes == {<<64>>, <<256, 64>>, <<64, 256>>}

\* Lines 41-47 and the meshes and solutions the subsystems start with:
\* the same patch, zero solutions, a history field or none, nothing saved.
AdInit ==
  /\ patch \in {"ASMu2D", "other", "nolr"}
  /\ aMin = 0
  /\ mesh1 \in InitMeshes /\ mesh2 = mesh1
  /\ sol1 = Vec(Len(mesh1), 0) /\ sol2 = Vec(Len(mesh1), 0)
  /\ hist \in {Vec(0, 0), Vec(Len(mesh1), 0)}
  /\ sols = <<>> /\ hsol = Vec(0, 0)
  /\ pick = NoPick

AdParked ==
  /\ patch = "ASMu2D"
  /\ aMin = 0
  /\ mesh1 = <<64>> /\ mesh2 = <<64>>
  /\ sol1 = Vec(1, 0) /\ sol2 = Vec(1, 0)
  /\ hist = Vec(1, 0)
  /\ sols = <<>> /\ hsol = Vec(0, 0)
  /\ pick = NoPick

\* Lines 41-47: the stop criterion after construction.
DrInit ==
  /\ ir = NoIr
  /\ doStop = FALSE
  /\ irfStop = 0
  /\ stopVal = 0
  /\ drv = NoDrv
  /\ obs = FALSE

\* The object after construction and parsing of the staggering parameters
\* (lines 33-49: tol and max are whatever the input file gives), about to
\* be asked to solve the time step tp.
QsInit ==
  /\ cycleTol \in (0 - MaxTol)..MaxTol
  /\ maxCycle \in 0..MaxCyc
  /\ E0 = 0 /\ Ep = 0 /\ Ec = 0
  /\ firstS1 \in BOOLEAN
  /\ cyc = 0
  /\ chk = NoChk

\* A SIMFractureQstatic object whose members are not used.
QsParked ==
  /\ cycleTol = 1 /\ maxCycle = 0
  /\ E0 = 0 /\ Ep = 0 /\ Ec = 0
  /\ firstS1 = TRUE
  /\ cyc = 0
  /\ chk = NoChk

CommonInit ==
  /\ tp \in [step : 1..MaxStep, iter : 0..MaxIter0, first : BOOLEAN]
  /\ calls = <<>>
  /\ ret = "none"
  /\ pc = "idle"
  /\ hasIC \in BOOLEAN
  /\ crackP \in BOOLEAN

InitSI == CommonInit /\ tp.first /\ QsInit /\ MiParked /\ DrInit /\ AdParked

NextSI == Qstatic_solveStep \/ SIMCoupledSI_cycle

SpecSI == InitSI /\ [][NextSI]_vars

\* The fixed-cycle scheme asked to solve one time step.
InitMiehe == CommonInit /\ MiInit /\ QsParked /\ DrInit /\ AdParked

\* Miehe_parseStaggering (line 183) is part of MiInit.
NextMiehe == Miehe_solveStep

SpecMiehe == InitMiehe /\ [][NextMiehe]_vars

\* The driver: any sequence of parseStaggering, advanceStep, solveStep and
\* saveStep calls on the constructed object.
InitDriver ==
  /\ tp = [step |-> 0, iter |-> 0, first |-> TRUE]
  /\ calls = <<>> /\ ret = "none" /\ pc = "idle"
  /\ hasIC \in BOOLEAN /\ crackP \in BOOLEAN
  /\ QsParked /\ MiParked /\ DrInit /\ AdParked

NextDriver ==
  \/ SIMFracture_parseStaggering
  \/ SIMFracture_advanceStep
  \/ SIMFracture_solveStep
  \/ SIMFracture_saveStep

SpecDriver == InitDriver /\ [][NextDriver]_vars

\* Adaptivity: any sequence of solveStep, saveState and adaptMesh calls.
InitAdapt ==
  /\ tp = [step |-> 0, iter |-> 0, first |-> TRUE]
  /\ calls = <<>> /\ ret = "none" /\ pc = "idle"
  /\ hasIC = FALSE /\ crackP = FALSE
  /\ QsParked /\ MiParked /\ DrInit /\ AdInit

NextAdapt ==
  \/ SIMFracture_solveStep
  \/ SIMFracture_saveState
  \/ SIMFracture_adaptMesh

SpecAdapt == InitAdapt /\ [][NextAdapt]_vars

\* initialRefine called on the constructed object, before any time step.
InitRefine ==
  /\ tp = [step |-> 0, iter |-> 0, first |-> TRUE]
  /\ calls = <<>> /\ ret = "none" /\ pc = "idle"
  /\ hasIC \in BOOLEAN /\ crackP = FALSE
  /\ QsParked /\ MiParked /\ DrInit /\ AdInit

NextRefine ==
  \/ SIMFracture_initialRefine
  \/ initialRefine_solve
  \/ initialRefine_adapt

SpecRefine == InitRefine /\ [][NextRefine]_vars

\* initialRefine is sequential code: as long as the calls it makes return,
\* its next statement is executed.
SpecRefineFair == SpecRefine /\ WF_vars(NextRefine)

\* The element selection of adaptMesh on its own, for every input of
\* SmallPicks and LargePicks.
InitSelect ==
  /\ tp = [step |-> 0, iter |-> 0, first |-> TRUE]
  /\ calls = <<>> /\ ret = "none" /\ pc = "idle"
  /\ hasIC = FALSE /\ crackP = FALSE
  /\ QsParked /\ MiParked /\ DrInit
  /\ patch = "ASMu2D"
  /\ aMin = 0
  /\ mesh1 = <<64>> /\ mesh2 = <<64>>
  /\ sol1 = Vec(1, 0) /\ sol2 = Vec(1, 0)
  /\ hist = Vec(1, 0)
  /\ sols = <<>> /\ hsol = Vec(0, 0)
  /\ \/ \E n \in 1..MaxSel : SmallPicks(n)
     \/ LargePicks(100)

NextSelect == adaptMesh_select

SpecSelect == InitSelect /\ [][NextSelect]_vars

\* ------------------------------------------------- claims, under SpecSI
\* The last check got statuses that are neither FAILURE nor DIVERGED and
\* all its residual calls succeeded.
CheckCompleted ==
  chk.ran /\ chk.s1 \notin {FAILURE, DIVERGED}
          /\ chk.s2 \notin {FAILURE, DIVERGED} /\ chk.fail = 0

\* C1: with both incoming statuses neither FAILURE nor DIVERGED and all
\* residual calls succeeding, checkConvergence returns, for R = rNorm1 +
\* rNorm2 and cycle index i: CONVERGED if R < |tol|; otherwise OK if
\* i < maxCycle; otherwise CONVERGED if tol < 0; otherwise DIVERGED.
C1_CheckCascade ==
  CheckCompleted =>
    LET R    == chk.r1 + chk.r2
        conv == R < cycleTol \/ R < 0 - cycleTol
    IN /\ conv => chk.status = CONVERGED
       /\ (~conv /\ chk.iter < maxCycle) => chk.status = OK
       /\ (~conv /\ chk.iter >= maxCycle /\ cycleTol < 0)
            => chk.status = CONVERGED
       /\ (~conv /\ chk.iter >= maxCycle /\ cycleTol >= 0)
            => chk.status = DIVERGED

C1_Witness ==
  /\ CheckCompleted /\ chk.status = DIVERGED
  /\ chk.iter = maxCycle /\ maxCycle = 2 /\ cycleTol = 1
  /\ chk.r1 + chk.r2 = 1

\* C2 (as claimed): for tol > 0 and a valid cap maxCycle >= 1, with all
\* subsystem calls succeeding, the cycle loop ends within maxCycle cycles,
\* and it ends with CONVERGED iff the combined residual of the last check
\* is < tol.
C2_WithinMaxCycles ==
  (pc = "done" /\ cyc > 0 /\ CheckCompleted
     /\ cycleTol > 0 /\ maxCycle >= 1) =>
    /\ cyc <= maxCycle
    /\ (chk.status = CONVERGED <=> chk.r1 + chk.r2 < cycleTol)

\* C3: with tol < 0 a check whose cycle index has reached maxCycle returns
\* CONVERGED whatever the residual; no check, and so no step, ends in
\* DIVERGED because of the residual: DIVERGED is returned only for an
\* incoming DIVERGED status, before any residual is computed.
C3_NegativeTolAccepts ==
  (chk.ran /\ cycleTol < 0) =>
    /\ (CheckCompleted /\ chk.iter >= maxCycle) => chk.status = CONVERGED
    /\ chk.status = DIVERGED =>
         (~chk.compared /\ (chk.s1 = DIVERGED \/ chk.s2 = DIVERGED))
    /\ (pc = "done" /\ chk.compared) => ret = "true"

C3_Witness ==
  /\ pc = "done" /\ cyc = maxCycle + 1 /\ maxCycle = 2
  /\ cycleTol < 0 /\ CheckCompleted
  /\ chk.r1 + chk.r2 >= 0 - cycleTol
  /\ chk.status = CONVERGED /\ ret = "true"

\* The residual calls of a check in their order in the code.
C4_Order ==
  << <<"S1", "setMode">>, <<"S1", "assembleSystem">>,
     <<"S1", "extractLoadVec">>, <<"S1", "extractScalar">>,
     <<"S2", "setMode">>, <<"S2", "assembleSystem">>,
     <<"S2", "extractLoadVec">>, <<"S2", "extractScalar">> >>

C4_MayFail ==
  { <<"S1", "assembleSystem">>, <<"S1", "extractLoadVec">>,
    <<"S2", "setMode">>, <<"S2", "assembleSystem">>,
    <<"S2", "extractLoadVec">> }

\* The calls of the check are those after the two solves of the cycle (or
\* the two calls of the bootstrap).
C4_CheckCalls(cs) == SubSeq(cs, 3, Len(cs))

C4_FailStep ==
  (chk'.ran /\ chk'.fail # 0) =>
    LET cs == C4_CheckCalls(calls')
        n  == Len(cs)
    IN /\ chk'.status = FAILURE
       /\ ~chk'.compared
       /\ ret' = "false"
       /\ E0' = E0 /\ Ep' = Ep /\ Ec' = Ec
       /\ n \in 1..Len(C4_Order)
       /\ \A i \in 1..n : <<cs[i].sub, cs[i].op>> = C4_Order[i]
       /\ \A i \in 1..(n - 1) : cs[i].ok
       /\ ~cs[n].ok
       /\ <<cs[n].sub, cs[n].op>> \in C4_MayFail

\* C4: a failing residual call (S1 assembleSystem or extractLoadVec, S2
\* setMode, assembleSystem or extractLoadVec) makes the check return
\* FAILURE at once: the failing call is the last call made, the comparison
\* of line 130 is not reached and E0, Ep, Ec keep their values.
C4_FailureIsImmediate == [][C4_FailStep]_vars

C4_Witness ==
  /\ chk.ran /\ chk.fail # 0 /\ chk.iter = 2
  /\ Len(calls) = 9 /\ calls[9].op = "extractLoadVec" /\ ~calls[9].ok
  /\ E0 = 1 /\ Ep = 1 /\ Ec = 0

\* The step taken by solveStep at step 1 with an initial phase field.
C8_BootstrapStep ==
  (pc = "idle" /\ tp.step = 1 /\ hasIC) =>
    LET n == Len(calls') IN
    /\ pc' = "done" /\ cyc' = 0
    /\ tp' = tp
    /\ n >= 1
    /\ <<calls'[1].sub, calls'[1].op>> = <<"S2", "postSolve">>
    /\ n >= 2 => /\ calls'[1].ok
                 /\ <<calls'[2].sub, calls'[2].op>> = <<"S1", "solveStep">>
    /\ n >= 3 => /\ calls'[2].ok
                 /\ chk'.ran /\ chk'.iter = tp.iter
                 /\ chk'.s1 = OK /\ chk'.s2 = CONVERGED
    /\ \A i \in 3..n : <<calls'[i].sub, calls'[i].op>> = C4_Order[i - 2]
    /\ (\A i \in 1..n : calls'[i].ok) => chk'.ran
    /\ chk'.ran => ret' = Bool(chk'.status >= OK)

\* C8: at step 1 with an initial phase field solveStep calls S2.postSolve,
\* then S1.solveStep, then the convergence check (with statuses OK and
\* CONVERGED, at the caller's cycle index) and nothing else: no staggering
\* cycle is run; S1 works on a copy, so tp is the same after the call.
C8_Bootstrap == [][C8_BootstrapStep]_vars

C8_Witness ==
  /\ pc = "done" /\ tp.step = 1 /\ hasIC /\ tp.iter = 1
  /\ chk.ran /\ Len(calls) = 10 /\ ret = "true"

\* C25: the bootstrap step (step 1 with an initial phase field) returns
\* true iff S2.postSolve and S1.solveStep succeeded and the one check
\* gave OK or CONVERGED; it returns true with OK when the residual calls
\* succeeded, the combined residual is not below |cycleTol| and the cycle
\* index is below maxCycle, and false when the check gave DIVERGED or
\* FAILURE.
C25_BootstrapResult ==
  (pc = "done" /\ tp.step = 1 /\ hasIC) =>
    LET R == chk.r1 + chk.r2 IN
    /\ ret \in {"true", "false"}
    /\ ret = "true" <=>
         /\ Len(calls) >= 2 /\ calls[1].ok /\ calls[2].ok
         /\ chk.ran /\ chk.status \in {OK, CONVERGED}
    /\ (Len(calls) >= 2 /\ calls[1].ok /\ calls[2].ok) =>
         /\ chk.ran /\ chk.s1 = OK /\ chk.s2 = CONVERGED
         /\ Len(calls) <= 2 + Len(C4_Order)
    /\ (chk.ran /\ chk.fail = 0 /\ R >= Abs(cycleTol)
              /\ chk.iter < maxCycle) =>
         (chk.status = OK /\ ret = "true")
    /\ (chk.ran /\ chk.status \in {DIVERGED, FAILURE}) => ret = "false"
    /\ (chk.ran /\ chk.fail # 0) => chk.status = FAILURE

\* A bootstrap step that succeeded with status OK and the largest
\* combined residual, not below the tolerance.
C25_Witness ==
  /\ pc = "done" /\ tp.step = 1 /\ hasIC /\ ret = "true"
  /\ chk.ran /\ chk.status = OK /\ chk.iter = 1 /\ maxCycle = 2
  /\ cycleTol = 1 /\ chk.r1 + chk.r2 = MaxNorm

\* C19: the energy scalars and the stored trace E0, Ep, Ec have no part in
\* the status: the last check, run again at the same cycle index with the
\* same incoming statuses, the same outcome of the residual calls and the
\* same residual norms, tolerance and cycle cap, but with any energy
\* scalars and with the trace as it is now, returns the status it
\* returned.
C19_EnergyBlind ==
  chk.ran =>
    \A env \in EnvsFor(chk.s1, chk.s2) :
      (env.fail = chk.fail /\ env.r1 = chk.r1 /\ env.r2 = chk.r2) =>
        checkConvergence([tp EXCEPT !.iter = chk.iter], chk.s1, chk.s2,
                         env).status = chk.status

C19_Witness ==
  /\ CheckCompleted /\ chk.iter = 2 /\ chk.status = DIVERGED
  /\ E0 = 1 /\ Ep = 0 /\ Ec = 1

\* C20 (as claimed): outside the bootstrap case the order handed to the
\* coupled solver is Field B first, and Field A first iff Field A has no
\* crack pressure coupling, at every step and whatever the caller asked
\* for.
C20_ByCrackPressure ==
  [][(pc = "idle" /\ pc' = "cycle") => (firstS1' <=> ~crackP)]_vars

\* C20 (amended): at step 1 (without an initial phase field) the order
\* handed to the coupled solver is the one the caller asked for, with or
\* without crack pressure; at every later step it is Field A first iff no
\* initial phase field is given, whatever the caller asked for and
\* whether or not Field A has crack pressure coupling.
C20_ByInitialField ==
  [][(pc = "idle" /\ pc' = "cycle") =>
       (firstS1' <=> IF tp.step = 1 THEN firstS1 ELSE ~hasIC)]_vars

C20_Witness ==
  /\ pc = "cycle" /\ cyc = 0 /\ tp.step = 2
  /\ crackP /\ ~hasIC /\ firstS1

\* ---------------------------------------------- claims, under SpecMiehe
\* The step solved was not the bootstrap step (step 1 with an initial phase
\* field).
MiStaggered == pc = "done" /\ (tp.step > 1 \/ ~hasIC)

Is(c, sub, op) == c.sub = sub /\ c.op = op

\* The index of the predictor solve in the calls of a staggered step.
PredictorAt(cs) ==
  CHOOSE i \in 1..Len(cs) : Is(cs[i], "S1", "solveIteration") /\ cs[i].tag = 1

\* The corrector pairs after the predictor: a Field B solveStep directly
\* followed by a Field A corrector solveIteration.
CorrectorPairs(cs) ==
  {i \in (PredictorAt(cs) + 1)..(Len(cs) - 1) :
     /\ Is(cs[i], "S2", "solveStep")
     /\ Is(cs[i + 1], "S1", "solveIteration") /\ cs[i + 1].tag \in {2, 3}}

PhaseSolvesAfterPredictor(cs) ==
  {i \in (PredictorAt(cs) + 1)..Len(cs) : Is(cs[i], "S2", "solveStep")}

Correctors(cs) ==
  {i \in 1..Len(cs) :
     Is(cs[i], "S1", "solveIteration") /\ cs[i].tag \in {2, 3}}

PairCountIs(cs, n) ==
  /\ Cardinality(CorrectorPairs(cs)) = n
  /\ Cardinality(PhaseSolvesAfterPredictor(cs)) = n
  /\ Cardinality(Correctors(cs)) = n
  /\ Cardinality({i \in 1..Len(cs) :
                    Is(cs[i], "S1", "solveIteration") /\ cs[i].tag = 1}) = 1

\* C5 (as claimed): a successful solveStep of a step that is not the
\* bootstrap step performs exactly numCycle (S2.solveStep, S1 corrector
\* solveIteration) pairs after the single predictor solve, for every
\* numCycle.
C5_ExactlyNumCycle ==
  (MiStaggered /\ ret = "true") => PairCountIs(calls, numCycle)

\* C5 (amended): it performs exactly numCycle pairs when numCycle >= 1 and
\* exactly one pair when numCycle <= 0: the first pair (lines 222-227) is
\* not part of the loop.
C5_PairCount ==
  (MiStaggered /\ ret = "true") =>
    PairCountIs(calls, IF numCycle >= 1 THEN numCycle ELSE 1)

C5_Witness ==
  /\ MiStaggered /\ ret = "true" /\ numCycle = 2
  /\ Cardinality(CorrectorPairs(calls)) = 2

\* The calls of a staggered step in the order listed by the claim, as
\* <<sub, op, tag, cycle index>> (cycle index -1: not stated): predictor,
\* strain energy density, phase field, corrector at cycle 1, the pairs of
\* cycles 1..n-1, postSolve of both fields, the residual diagnostics.
C6_Listed(n) ==
  LET m == IF n > 1 THEN n - 1 ELSE 0 IN
  [k \in 1..(2 * m + 14) |->
     IF k = 1 THEN <<"S1", "solveIteration", 1, 0>>
     ELSE IF k = 2 THEN <<"S1", "updateStrainEnergyDensity", 0, 0>>
     ELSE IF k = 3 THEN <<"S2", "solveStep", 0, 0>>
     ELSE IF k = 4 THEN <<"S1", "solveIteration", 2, 1>>
     ELSE IF k <= 4 + 2 * m THEN
       IF k % 2 = 1 THEN <<"S2", "solveStep", 0, (k - 3) \div 2>>
       ELSE <<"S1", "solveIteration", 3, (k - 4) \div 2>>
     ELSE IF k = 5 + 2 * m THEN <<"S1", "postSolve", 0, 0 - 1>>
     ELSE IF k = 6 + 2 * m THEN <<"S2", "postSolve", 0, 0 - 1>>
     ELSE Append(C4_Order[k - 6 - 2 * m], 0) \o <<0 - 1>>]

\* The calls made are the first calls of `listed`, none but the last has
\* failed, and the step failed iff the last call failed.
RunsInOrder(cs, listed) ==
  /\ Len(cs) \in 1..Len(listed)
  /\ \A i \in 1..Len(cs) :
       /\ <<cs[i].sub, cs[i].op, cs[i].tag>> = SubSeq(listed[i], 1, 3)
       /\ listed[i][4] >= 0 => cs[i].iter = listed[i][4]
  /\ \A i \in 1..(Len(cs) - 1) : cs[i].ok
  /\ ret = Bool(cs[Len(cs)].ok)
  /\ ret = "true" => Len(cs) = Len(listed)

\* C6 (as claimed): in every step that is not the bootstrap step the calls
\* are made in the listed order, starting with the predictor, and a
\* failing solve or strain energy update is the last call of the step.
C6_ListedOrder ==
  MiStaggered => RunsInOrder(calls, C6_Listed(numCycle))

\* C6 (amended): the same, except that at step 1 with crack pressure on
\* Field A (and no initial phase field) one S2.solveStep precedes the
\* predictor (lines 203-208), and its failure ends the step too.
C6_Order ==
  MiStaggered =>
    RunsInOrder(calls,
                (IF tp.step = 1 /\ crackP
                 THEN << <<"S2", "solveStep", 0, 0 - 1>> >> ELSE <<>>)
                \o C6_Listed(numCycle))

C6_Witness ==
  /\ MiStaggered /\ tp.step = 1 /\ crackP /\ numCycle = 2
  /\ ret = "true" /\ Len(calls) = 17

\* C7: the fixed-cycle solveStep returns true or false only; it returns
\* false iff one of its tested calls failed, that call being a solve
\* (solveStep, solveIteration, the postSolve of the bootstrap), the strain
\* energy update, or a call of the residual assembly (setMode of Field B,
\* assembleSystem, extractLoadVec); with all calls succeeding it returns
\* true whatever the residual norms and energies it computed.
C7_NoDivergence ==
  pc = "done" =>
    /\ ret \in {"true", "false"}
    /\ ret = "true" <=> \A i \in 1..Len(calls) : calls[i].ok
    /\ ret = "false" =>
         LET c == calls[Len(calls)] IN
         /\ ~c.ok
         /\ \/ c.op \in {"solveStep", "solveIteration",
                          "updateStrainEnergyDensity",
                          "assembleSystem", "extractLoadVec"}
            \/ Is(c, "S2", "setMode")
            \/ Is(c, "S2", "postSolve") /\ tp.step = 1 /\ hasIC

C7_Witness ==
  /\ pc = "done" /\ ret = "true" /\ MiStaggered
  /\ diag.r1 + diag.r2 = MaxNorm /\ diag.e1 + diag.e2 = MaxE

\* The calls of the bootstrap step, in order: those of lines 193-198, then
\* the residual evaluation.
C22_Listed ==
  << <<"S2", "postSolve">>, <<"S1", "solveStep">> >> \o C4_Order

\* A call of the staggering: a predictor or corrector solve, the strain
\* energy update, a phase-field solve.
C22_Staggering(c) ==
  \/ c.op \in {"solveIteration", "updateStrainEnergyDensity"}
  \/ Is(c, "S2", "solveStep")

C22_Calls(cs) ==
  /\ Len(cs) \in 1..Len(C22_Listed)
  /\ \A i \in 1..Len(cs) : <<cs[i].sub, cs[i].op>> = C22_Listed[i]
  /\ \A i \in 1..(Len(cs) - 1) : cs[i].ok
  /\ \A i \in 1..Len(cs) : ~C22_Staggering(cs[i])

C22_AsSIStep ==
  (pc = "idle" /\ pc' = "done" /\ tp.step = 1 /\ hasIC) =>
    /\ C22_Calls(calls')
    /\ ret' = "true" => Len(calls') = Len(C22_Listed)
    /\ tp'.iter = tp.iter

\* C22 (as claimed): at step 1 with an initial phase field the fixed-cycle
\* solveStep calls S2.postSolve, then S1.solveStep, runs no predictor, no
\* strain energy update and no corrector pair, evaluates the residuals
\* once, and the cycle counter of the caller's tp is after the call what it
\* was before, as in the successive-iteration scheme.
C22_BootstrapAsSI == [][C22_AsSIStep]_vars

C22_OwnStep ==
  (pc = "idle" /\ pc' = "done" /\ tp.step = 1 /\ hasIC) =>
    LET n == Len(calls') IN
    /\ C22_Calls(calls')
    /\ ret' = Bool(n = Len(C22_Listed) /\ calls'[n].ok)
    /\ tp'.step = tp.step
    /\ n = 1 => tp' = tp
    /\ n >= 3 => /\ ~tp'.first
                 /\ \A i \in 3..n : calls'[i].iter = tp'.iter
    /\ \A i \in 1..(IF n < 2 THEN n ELSE 2) : calls'[i].iter = tp.iter

\* C22 (amended): the calls are those, in that order, each made only if
\* the one before succeeded, and the step returns true iff all of them
\* succeeded, whatever the residuals are; S1.solveStep is given the
\* caller's tp itself, so the residuals are evaluated at the cycle counter
\* S1.solveStep left in tp, which is the counter the caller gets back, and
\* tp.time.first is false once S1.solveStep has succeeded.
C22_Bootstrap == [][C22_OwnStep]_vars

\* A bootstrap step that succeeded with the largest residual, entered with
\* one cycle counter and left with another.
C22_Witness ==
  /\ pc = "done" /\ tp.step = 1 /\ hasIC /\ ret = "true"
  /\ Len(calls) = Len(C22_Listed)
  /\ calls[2].iter = 0 /\ tp.iter = 1 /\ ~tp.first
  /\ diag.r1 + diag.r2 = MaxNorm

\* --------------------------------------------- claims, under SpecDriver
\* C9: if the last saveStep ran at a step after step 1 and saw
\* |RF(irfStop)| < stopVal for a configured component irfStop (1 <=
\* irfStop <= number of components), the next advanceStep returns false;
\* the stop flag is set by saveStep only: no advanceStep, solveStep or
\* parseStaggering changes it.
C9_StopOnNextAdvance ==
  /\ []((drv.op = "advance" /\ obs) => ~drv.ret)
  /\ [][(doStop' # doStop) => drv'.op = "save"]_vars

C9_Witness ==
  /\ drv.op = "advance" /\ obs /\ drv.base /\ ~drv.ret
  /\ irfStop = 2 /\ stopVal = 2

C23_SaveStep ==
  /\ drv'.op = "save" =>
        /\ drv'.eval => doStop' = obs'
        /\ ~drv'.eval => (doStop' = doStop /\ ~obs')
        /\ (drv'.step <= 1 \/ irfStop <= 0 \/ irfStop > MaxRF) => ~drv'.eval
        /\ drv'.was = doStop
  /\ drv'.op # "save" => doStop' = doStop
  /\ drv'.op = "advance" => drv'.ret = (drv'.base /\ ~doStop)

\* The flag starts false and stays false as long as irfStop is 0.
C23_Unconfigured == [](irfStop = 0) => [](~doStop)

\* C23: the stop flag is whatever the last saveStep that compared
\* |RF(irfStop)| with stopVal found (true iff it was below), so a later
\* comparison that finds it not below clears the flag and advanceStep
\* succeeds again; a saveStep at step <= 1, with irfStop = 0 or with
\* irfStop beyond the components of RF compares nothing and leaves the
\* flag as it is, nothing else changes the flag, and advanceStep returns
\* the value of the base class unless the flag is set; with irfStop left
\* at 0 the flag is never set.
C23_NotLatched == [][C23_SaveStep]_vars /\ C23_Unconfigured

\* A saveStep that has cleared the flag an earlier saveStep had set.
C23_Witness ==
  /\ drv.op = "save" /\ drv.eval /\ drv.was /\ ~doStop /\ ~obs
  /\ irfStop = 1 /\ stopVal = 1

\* ---------------------------------------------- claims, under SpecAdapt
\* The calls by which adaptMesh refines and re-initialises a subsystem.
AdaptOps == {"refine", "read", "preprocess", "init", "initSystem"}

\* The step taken by an adaptMesh call to which S2.getNorm gives an empty
\* indicator vector eNorm.
C10_MissingIndicatorStep ==
  (drv'.op = "adaptMesh" /\ drv'.empty) =>
     /\ drv'.code = 0 - 1
     /\ \A i \in 1..Len(calls') : calls'[i].op \notin AdaptOps
     /\ mesh1' = mesh1 /\ mesh2' = mesh2
     /\ sol1' = sol1 /\ sol2' = sol2 /\ hist' = hist
     /\ sols' = sols /\ hsol' = hsol

\* C10: an adaptMesh call in which S2.getNorm leaves the indicator vector
\* eNorm empty returns -1, makes no refine, read, preprocess or init call,
\* and leaves both meshes, the solutions and history field of the
\* subsystems and the buffer of saveState as they were.
C10_MissingIndicator == [][C10_MissingIndicatorStep]_vars

C10_Witness ==
  /\ drv.op = "adaptMesh" /\ drv.empty /\ drv.code = 0 - 1
  /\ Len(mesh1) = 4 /\ mesh2 = mesh1
  /\ sols # <<>> /\ sol1.v # 0 /\ sols[1].v # sol1.v

\* The calls by which adaptMesh, once it has found elements to refine,
\* refines the meshes, sets the subsystems up again and moves the saved
\* state onto the new mesh.
RefineOps ==
  AdaptOps \cup {"clearProperties", "setSolutions", "setSolution",
                 "transferHistory2D"}

\* The step taken by an adaptMesh call whose loop over the sorted
\* elements met no element with an area above the minimum area.
C11_AtFloorStep ==
  (drv'.op = "adaptMesh" /\ drv'.walk \in {"none", "floor"}) =>
     /\ drv'.code = 0
     /\ \A i \in 1..Len(calls') : calls'[i].op \notin RefineOps
     /\ mesh1' = mesh1 /\ mesh2' = mesh2
     /\ sol1' = sol1 /\ sol2' = sol2 /\ hist' = hist
     /\ sols' = sols /\ hsol' = hsol

\* C11: an adaptMesh call given indicators for which every element the
\* selection loop passes has an area of at most the minimum area aMin
\* returns 0, makes no refine, clearProperties, read, preprocess, init or
\* state transfer call, and leaves both meshes, the solutions and history
\* field of the subsystems and the buffer of saveState as they were.
C11_AtFloorNoOp == [][C11_AtFloorStep]_vars

C11_Witness ==
  /\ drv.op = "adaptMesh" /\ drv.walk = "floor" /\ drv.code = 0
  /\ Len(mesh1) = 4 /\ aMin = 16 /\ sols # <<>> /\ sol1.v # 0

\* The step taken by an adaptMesh call: both meshes refined alike and a
\* positive value returned, or both meshes as they were.
C12_AtomicStep ==
  drv'.op = "adaptMesh" =>
    \/ /\ drv'.code > 0
       /\ mesh1' # mesh1 /\ mesh2' # mesh2 /\ mesh1' = mesh2'
    \/ /\ drv'.code <= 0
       /\ mesh1' = mesh1 /\ mesh2' = mesh2

\* C12 (as claimed): after any adaptMesh call either both subsystems are
\* on the refined mesh and the value returned is positive, or an error
\* code (or 0) was returned and both are on the mesh they had before the
\* call; one subsystem is never refined while the other is not.
C12_Atomic == [][C12_AtomicStep]_vars

\* The call that made adaptMesh return, "none" if no call failed.
C13_Stage(cs) ==
  IF cs = <<>> \/ cs[Len(cs)].ok THEN "none" ELSE cs[Len(cs)].op

\* The step taken by an adaptMesh call: the value returned against what
\* happened in the call.
C13_CodeStep ==
  drv'.op = "adaptMesh" =>
    LET c     == drv'.code
        stage == C13_Stage(calls')
    IN /\ c = 0 - 999 <=> patch = "other"
       /\ c = 0 - 1 <=> (drv'.empty \/ patch = "nolr")
       /\ c = 0 - 2 <=> stage = "refine"
       /\ c = 0 - 3 <=> stage = "read"
       /\ c = 0 - 4 <=> stage = "preprocess"
       /\ c = 0 - 5 <=> stage = "init"
       /\ c = 0 - 6 <=> stage = "initSystem"
       /\ c < 0 => c \in {0 - 999, 0 - 1, 0 - 2, 0 - 3, 0 - 4, 0 - 5, 0 - 6}
       /\ c = 0 <=> (patch = "ASMu2D" /\ ~drv'.empty /\ drv'.nsel = 0)
       /\ c > 0 <=> (patch = "ASMu2D" /\ drv'.nsel > 0 /\ stage = "none")
       /\ c > 0 => c = drv'.nsel

\* C13: the value adaptMesh returns tells what happened: -1 for a missing
\* indicator vector, -2 for a failing refine of either field, -3 for a
\* failing read, -4 for a failing preprocess, -5 and -6 for a failing init
\* and initSystem, no two of these stages sharing a code; 0 exactly when
\* indicators were given and no element was selected; a positive value
\* exactly when elements were selected and no call failed, and then the
\* number of elements selected.
C13_ReturnCodes == [][C13_CodeStep]_vars

C13_Witness ==
  /\ drv.op = "adaptMesh" /\ drv.code = 0 - 4 /\ drv.nsel = 1
  /\ Len(mesh1) = 7 /\ mesh2 = mesh1

\* C14 (as claimed): when adaptMesh has refined the mesh and returned,
\* the buffer of saveState holds no snapshot: no saved solution vectors
\* and no saved history field, so that a later refinement has nothing of
\* an earlier one to transfer.
C14_Discarded ==
  (drv.op = "adaptMesh" /\ drv.code > 0) => (sols = <<>> /\ hsol.n = 0)

\* The step taken by an adaptMesh call that refines and returns a
\* positive value: the content of the solutions afterwards against their
\* content when the call was made.
C15_RestoreStep ==
  (drv'.op = "adaptMesh" /\ drv'.code > 0) =>
     /\ sol1'.v = sol1.v
     /\ sol2'.v = sol2.v
     /\ hist.n # 0 => hist'.v = hist.v

\* C15 (as claimed): after an adaptMesh call that refined the mesh, the
\* solutions of Field A, the solution of Field B and the history field of
\* Field B (if it has one) hold, on the new mesh, what they held when
\* adaptMesh was called, whatever solveStep, saveState and adaptMesh calls
\* came before.
C15_RestoresCurrent == [][C15_RestoreStep]_vars

\* -------------------------------------------- claims, under SpecSelect
\* The selection has run on n elements; X(i): the indicator of element i
\* is above eMin; Big(i): its area is above the minimum area.
C16_X(i) == i \in pick.above
C16_Big(i) == pick.area[i] > pick.aMin

\* The elements among the first k of idx whose area is above the minimum.
C16_BigUpTo(k) == {j \in 1..k : C16_Big(pick.idx[j])}

\* The walk stops before position k of idx.
C16_Stops(k) ==
  C16_X(pick.idx[k]) \/ Cardinality(C16_BigUpTo(k - 1)) >= pick.eMax

\* C16: idx lists every element once in ascending indicator order; the
\* elements selected are, in that order, those of area above aMin among
\* the first p of idx, p being the number of elements before the first
\* one whose indicator is above eMin or at which eMax elements have been
\* selected already; hence every selected element has an indicator of at
\* most eMin and an area above aMin, at most eMax elements are selected,
\* and no element left out with an area above aMin has a lower indicator
\* than a selected one.
C16_Selection ==
  pick.done =>
    LET n   == Len(pick.eNorm)
        el  == pick.elements
        sel == {el[i] : i \in 1..Len(el)}
        p   == IF \E k \in 1..n : C16_Stops(k)
               THEN (CHOOSE k \in 1..n :
                       C16_Stops(k) /\ \A j \in 1..(k - 1) : ~C16_Stops(j)) - 1
               ELSE n
        at  == [j \in 1..Cardinality(C16_BigUpTo(p)) |->
                  CHOOSE k \in C16_BigUpTo(p) :
                    Cardinality(C16_BigUpTo(k)) = j]
    IN /\ Len(pick.idx) = n
       /\ {pick.idx[k] : k \in 1..n} = 1..n
       /\ \A k \in 1..(n - 1) :
            pick.eNorm[pick.idx[k]] <= pick.eNorm[pick.idx[k + 1]]
       /\ el = [j \in 1..Len(at) |-> pick.idx[at[j]]]
       /\ \A i \in sel : ~C16_X(i) /\ C16_Big(i)
       /\ Cardinality(sel) = Len(el)
       /\ Len(el) <= pick.eMax
       /\ \A i \in (1..n) \ sel : \A j \in sel :
            C16_Big(i) => pick.eNorm[i] >= pick.eNorm[j]

C16_Witness ==
  /\ pick.done /\ Len(pick.eNorm) = 3 /\ pick.eMax = 1
  /\ Len(pick.elements) = 1 /\ pick.idx[1] # pick.elements[1]
  /\ \E i \in 1..3 : i \notin pick.above /\ pick.area[i] > pick.aMin
                      /\ i # pick.elements[1]

\* The whole number r with r * r <= n < (r + 1) * (r + 1).
C17_Root(n) == CHOOSE r \in 0..n : r * r <= n /\ n < (r + 1) * (r + 1)

\* C17: eMin is min_frac when that is not negative and |min_frac| * gNorm
\* / sqrt(n) when it is, n being the number of elements; eMax is n when
\* beta is negative and n * beta / 100, truncated, when it is not.  With
\* beta = -1, min_frac = 0.05, gNorm = 10 and 100 elements eMin is 0.05,
\* which is also 0.05 * 10 / sqrt(100), eMax is 100 and no element with an
\* indicator above 0.05 is selected (indicators and min_frac are in
\* thousandths there).
C17_EMinEMax ==
  pick.done =>
    LET n  == Len(pick.eNorm)
        r  == C17_Root(n)
        mf == pick.min_frac
        c  == (0 - mf) * pick.gNorm
        el == pick.elements
    IN /\ mf >= 0 =>
            pick.above = {i \in 1..n : pick.eNorm[i] > mf}
       /\ (mf < 0 /\ r * r = n) =>
            pick.above = {i \in 1..n : pick.eNorm[i] * r > c}
       /\ mf < 0 =>
            \A i \in 1..n :
              /\ pick.eNorm[i] * r > c => i \in pick.above
              /\ pick.eNorm[i] * (r + 1) <= c => i \notin pick.above
       /\ pick.beta < 0 => pick.eMax = n
       /\ pick.beta >= 0 =>
            /\ 100 * pick.eMax <= n * pick.beta
            /\ n * pick.beta < 100 * (pick.eMax + 1)
       /\ (pick.beta = 0 - 1 /\ mf = 50 /\ pick.gNorm = 10 /\ n = 100) =>
            /\ mf * pick.gNorm = 50 * r
            /\ pick.eMax = 100
            /\ pick.above = {i \in 1..n : pick.eNorm[i] > 50}
            /\ \A j \in 1..Len(el) : pick.eNorm[el[j]] <= 50

C17_Witness ==
  /\ pick.done /\ Len(pick.eNorm) = 100
  /\ pick.beta = 0 - 1 /\ pick.min_frac = 50 /\ pick.gNorm = 10
  /\ pick.eMax = 100 /\ Cardinality(pick.above) = 49
  /\ Len(pick.elements) = 34

\* -------------------------------------------- claims, under SpecRefine
\* The calls that begin a step of the loop of initialRefine: the solve of
\* Field B and the first call adaptMesh makes.
C18_Top(c) == c.op \in {"solveStep", "getPatch"}

\* C18: initialRefine returns true without any solve or refinement call
\* when S2.getInitRefine() >= nrefinements or an initial phase field is
\* given; otherwise it calls S2.solveStep and adaptMesh in turn, never a
\* solve of Field A, going on as long as the solve succeeds and adaptMesh
\* returns a positive value, and it returns true iff no solve failed and
\* the last adaptMesh returned 0.
C18_InitialRefine ==
  LET ns == Len(ir.solves)
      nc == Len(ir.codes)
      T  == SelectSeq(calls, C18_Top)
  IN /\ pc \in {"irSolve", "irAdapt"} =>
          /\ ~SkipRefine(ir.initRef, ir.nref, hasIC)
          /\ \A i \in 1..ns : ir.solves[i]
          /\ \A i \in 1..nc : ir.codes[i] > 0
          /\ nc = (IF pc = "irSolve" THEN ns ELSE ns - 1)
     /\ (pc = "done" /\ SkipRefine(ir.initRef, ir.nref, hasIC)) =>
          /\ ret = "true"
          /\ ns = 0 /\ nc = 0
          /\ \A i \in 1..Len(calls) :
               calls[i].op \in {"getInitRefine", "hasIC"}
          /\ mesh1 \in InitMeshes /\ mesh2 = mesh1 /\ aMin = 0
          /\ sol2.v = 0
     /\ (pc = "done" /\ ~SkipRefine(ir.initRef, ir.nref, hasIC)) =>
          /\ ns >= 1 /\ nc \in {ns - 1, ns}
          /\ \A i \in 1..(ns - 1) : ir.solves[i]
          /\ \A i \in 1..(nc - 1) : ir.codes[i] > 0
          /\ nc = ns => (ir.solves[ns] /\ ir.codes[nc] <= 0)
          /\ nc = ns - 1 => ~ir.solves[ns]
          /\ ret \in {"true", "false"}
          /\ ret = "true" <=> (ir.solves[ns] /\ nc = ns /\ ir.codes[nc] = 0)
          /\ \A i \in 1..Len(calls) :
               ~(calls[i].sub = "S1" /\
                 calls[i].op \in {"solveStep", "solveIteration"})
          /\ patch # "nolr" =>
               /\ Len(T) = ns + nc
               /\ \A k \in 1..Len(T) :
                    /\ T[k].op = (IF k % 2 = 1 THEN "solveStep"
                                              ELSE "getPatch")
                    /\ T[k].op = "solveStep" => T[k].sub = "S2"

C18_Witness ==
  /\ pc = "done" /\ ret = "true" /\ ir.codes = <<1, 0>>
  /\ ir.solves = <<TRUE, TRUE>> /\ Len(mesh1) = 4 /\ aMin = 16

\* ---------------------------------------- claims, under SpecRefineFair

\* The number of refinements an element of the given area can still go
\* through, children included, before all of it is at or below a floor
\* (> 0).
RECURSIVE C24_Left(_, _)
C24_Left(area, floor) ==
  IF area <= floor THEN 0 ELSE 1 + 4 * C24_Left(area \div 4, floor)

RECURSIVE C24_LeftIn(_, _, _)
C24_LeftIn(mesh, floor, i) ==
  IF i > Len(mesh) THEN 0
  ELSE C24_Left(mesh[i], floor) + C24_LeftIn(mesh, floor, i + 1)

C24_LoopStep ==
  /\ pc = "irAdapt" =>
        /\ pc' = (IF drv'.code > 0 THEN "irSolve" ELSE "done")
        /\ drv'.code > 0 =>
              /\ aMin' > 0 /\ (aMin > 0 => aMin' = aMin)
              /\ C24_LeftIn(mesh1', aMin', 1) < C24_LeftIn(mesh1, aMin', 1)
        /\ (aMin' > 0 /\ C24_LeftIn(mesh1, aMin', 1) = 0) => drv'.code <= 0
  /\ pc = "irSolve" => (mesh1' = mesh1 /\ aMin' = aMin)

\* The meshes followed end here: adaptMesh is not followed on this one.
C24_Cut == pc = "irAdapt" /\ Len(mesh2) > MaxElems

\* C24: every pass of the loop of initialRefine that goes round again
\* (adaptMesh > 0) has refined at least one element above the minimum
\* element area, which it leaves as it is, so the number of refinements
\* left above it falls with every pass; adaptMesh returns a value <= 0
\* once none is left; and with every call returning, initialRefine
\* returns (on the meshes followed).
C24_Terminates == [][C24_LoopStep]_vars /\ <>(pc = "done" \/ C24_Cut)

\* initialRefine has returned true after two passes: the first refined the
\* one element, the second found the four new ones at the minimum area.
C24_Witness ==
  /\ pc = "done" /\ ret = "true" /\ ir.codes = <<1, 0>>
  /\ drv.walk = "floor"
  /\ aMin = 16 /\ mesh1 = <<16, 16, 16, 16>>
  /\ C24_LeftIn(mesh1, aMin, 1) = 0

\* -------------------------------------------- claims, under SpecAdapt: the floor

\* The smallest element area of a mesh.
C21_Finest(mesh) ==
  CHOOSE m \in {mesh[i] : i \in 1..Len(mesh)} :
    \A i \in 1..Len(mesh) : m <= mesh[i]

\* The sets of elements whose refinement turns mesh into finer.
C21_Refinements(mesh, finer) ==
  {sel \in SUBSET (1..Len(mesh)) : sel # {} /\ Refined(mesh, sel, 1) = finer}

C21_FloorStep ==
  (drv'.op = "adaptMesh" /\ patch = "ASMu2D") =>
     /\ aMin <= 0 =>
           /\ drv'.nref >= 0
           /\ aMin' = C21_Finest(mesh1) \div (4 ^ drv'.nref)
     /\ aMin > 0 => aMin' = aMin
     /\ \A sel \in C21_Refinements(mesh1, mesh1') :
           \A i \in sel : mesh1[i] > aMin'

\* C21: the first adaptMesh call sets the minimum element area to the
\* area of the finest element of the mesh divided by 4^nrefinements, every
\* later adaptMesh call leaves it at that value, and no element whose area
\* is at or below it is refined.
C21_FloorOnce == [][C21_FloorStep]_vars

C21_FirstElementStep ==
  (drv'.op = "adaptMesh" /\ patch = "ASMu2D") =>
     /\ aMin <= 0 =>
           /\ drv'.nref >= 0
           /\ aMin' = mesh1[1] \div (4 ^ drv'.nref)
           /\ aMin' > 0
     /\ aMin > 0 => aMin' = aMin
     /\ \A sel \in C21_Refinements(mesh1, mesh1') :
           \A i \in sel : mesh1[i] > aMin'

\* C21, amended: the first adaptMesh call that finds the patch sets the
\* minimum element area to the area of the first element of the mesh of S1
\* divided by 4^nrefinements, every later adaptMesh call leaves it at that
\* value, and no element whose area is at or below it is refined.
C21_FloorFromFirstElement == [][C21_FirstElementStep]_vars

\* The first adaptMesh call on a graded mesh, with nrefinements = 1: the
\* floor is a quarter of the first element's area, which is the area of
\* the finest element; the first element has been refined.
C21_Witness ==
  /\ drv.op = "adaptMesh" /\ drv.nref = 1 /\ drv.code = 1
  /\ aMin = 64
  /\ mesh1 = <<64, 64, 64, 64, 64>> /\ mesh2 = mesh1

====
